---------------------------- MODULE Spec2Model ----------------------------
(***************************************************************************)
(* A model of the VictoryBar component (src/components/victory-bar.jsx):   *)
(* the style / domain / scale / position pipeline that getCalculatedValues *)
(* caches on the component instance, the per-bar geometry and labels that  *)
(* renderBars emits, and the delegation of animated passes to the          *)
(* VictoryAnimation collaborator.                                          *)
(*                                                                         *)
(* JavaScript numbers are modelled as exact rationals <<n, d>> (d > 0, in  *)
(* lowest terms); floating-point rounding is not modelled.  An optional    *)
(* value (a JavaScript value that may be undefined) is the empty sequence  *)
(* when absent and a one-element sequence, or the value itself when that   *)
(* is a pair, when present.                                                *)
(***************************************************************************)
EXTENDS Integers, Sequences, FiniteSets, TLC

VARIABLES
  tree       \* the mounted VictoryBar instances: tree[1] is the root, and
             \* tree[k+1] is the VictoryBar that the VictoryAnimation element
             \* rendered by tree[k] creates in its callback

vars == <<tree>>

-----------------------------------------------------------------------------
(* Exact arithmetic on JavaScript numbers.                                 *)

Abs(n) == IF n < 0 THEN -n ELSE n

RECURSIVE Gcd(_, _)
Gcd(a, b) == IF b = 0 THEN a ELSE Gcd(b, a % b)

Rat(n, d) ==
  LET s == IF d < 0 THEN -1 ELSE 1
      g == Gcd(Abs(n), Abs(d))
  IN  <<(s * n) \div g, (s * d) \div g>>

Num(n) == <<n, 1>>
RAdd(a, b) == Rat(a[1] * b[2] + b[1] * a[2], a[2] * b[2])
RSub(a, b) == Rat(a[1] * b[2] - b[1] * a[2], a[2] * b[2])
RMul(a, b) == Rat(a[1] * b[1], a[2] * b[2])
RDiv(a, b) == Rat(a[1] * b[2], a[2] * b[1])
RLt(a, b)  == a[1] * b[2] < b[1] * a[2]
RLe(a, b)  == a[1] * b[2] <= b[1] * a[2]
RMax(a, b) == IF RLt(a, b) THEN b ELSE a
RMin(a, b) == IF RLt(b, a) THEN b ELSE a

\* Math.max(...pair) and Math.min(...pair) of a two-element array
MaxOf(pair) == RMax(pair[1], pair[2])
MinOf(pair) == RMin(pair[1], pair[2])

IMax(a, b) == IF a < b THEN b ELSE a
IMin(a, b) == IF b < a THEN b ELSE a

RECURSIVE SeqMin(_)
SeqMin(s) == IF Len(s) = 1 THEN s[1] ELSE IMin(s[1], SeqMin(Tail(s)))

RECURSIVE SeqMax(_)
SeqMax(s) == IF Len(s) = 1 THEN s[1] ELSE IMax(s[1], SeqMax(Tail(s)))

\* _.flatten of an array of arrays
RECURSIVE Flatten(_)
Flatten(ss) == IF ss = <<>> THEN <<>> ELSE Head(ss) \o Flatten(Tail(ss))

\* _.merge(dest, src) on flat objects: every key of src overrides dest
Merge(dest, src) ==
  [k \in DOMAIN dest \cup DOMAIN src |-> IF k \in DOMAIN src THEN src[k] ELSE dest[k]]

NoObject == <<>>     \* an absent (undefined) object, or an object with no keys

-----------------------------------------------------------------------------
(* Module constants.                                                       *)

defaultStyles ==
  [data   |-> [width |-> 8, padding |-> 6, stroke |-> "transparent",
               strokeWidth |-> 0, fill |-> "#756f6a", opacity |-> 1],
   labels |-> [fontSize |-> 12, padding |-> 4]]

defaultData ==
  << <<[x |-> 1, y |-> 1], [x |-> 2, y |-> 2], [x |-> 3, y |-> 3], [x |-> 4, y |-> 4]>> >>

-----------------------------------------------------------------------------
(* Props.  A props record has the fields                                   *)
(*   animate          TRUE iff an animate object is given                  *)
(*   data             an array of datasets, each an array of [x, y]        *)
(*   xStrings         TRUE iff the x values are strings: x = k then stands *)
(*                    for the k-th string of the alphabet                  *)
(*   categories       [kind, nums, bands]: kind is "none" (no categories), *)
(*                    "strings", "numbers" (nums) or "bands" (bands, an    *)
(*                    array of [lo, hi] range bands)                       *)
(*   domain           [kind, arr, x, y]: kind is "none", "array" (arr, one *)
(*                    shared array) or "object" (x and y, each optional)   *)
(*   domainPadding, height, width, padding     pixels                      *)
(*   labels, labelComponents   [set, v]: set iff the array v is given      *)
(*   stacked          the stacked flag                                     *)
(*   style            [set, parent, data, labels]: the three objects are   *)
(*                    optional                                             *)
(* The standalone and horizontal flags and colorScale / dataAttributes     *)
(* only select markup and colours and are left out.                        *)

NoCategories == [kind |-> "none", nums |-> <<>>, bands |-> <<>>]
NoDomain     == [kind |-> "none", arr |-> <<>>, x |-> <<>>, y |-> <<>>]
NoArray      == [set |-> FALSE, v |-> <<>>]
NoStyle      == [set |-> FALSE, parent |-> NoObject, data |-> NoObject, labels |-> NoObject]

-----------------------------------------------------------------------------
(* The victory-util collaborators (Chart, Data, Collection, Scale) and the *)
(* d3 linear scale.  Their code is not part of the component's source;     *)
(* they are modelled from the specification's sections 3, 4.2-4.4.         *)

\* Collection.containsStrings(props.categories)
containsStrings(categories) == categories.kind = "strings"

\* Chart.getPadding(props): a number applies to all four sides
getPadding(props) ==
  [top |-> props.padding, bottom |-> props.padding,
   left |-> props.padding, right |-> props.padding]

\* Chart.getRange(props, axis): the pixel extent inside the padding insets;
\* the y range is inverted (pixel 0 is the top)
getRange(props, axis) ==
  LET padding == getPadding(props)
  IN  IF axis = "x"
        THEN <<Num(padding.left), Num(props.width - padding.right)>>
        ELSE <<Num(props.height - padding.bottom), Num(padding.top)>>

\* the raw values of one axis over all points of props.data
AllRaw(props, axis) ==
  UNION {{props.data[i][j][axis] : j \in DOMAIN props.data[i]} : i \in DOMAIN props.data}

\* Data.createStringMap(props, axis): the unique string values of the axis,
\* sorted, mapped to their 1-based positions; null (no keys) without strings
createStringMap(props, axis) ==
  IF axis = "x" /\ props.xStrings
    THEN LET strings == AllRaw(props, "x")
         IN  [s \in strings |-> Cardinality({t \in strings : t < s}) + 1]
    ELSE NoObject

\* the index of the first range band that holds x (Array.findIndex: -1 when
\* none does); undefined unless the categories are range bands
determineCategoryIndex(x, categories) ==
  IF categories.kind # "bands" THEN <<>>
  ELSE LET hits == {b \in DOMAIN categories.bands :
                      /\ x >= IMin(categories.bands[b][1], categories.bands[b][2])
                      /\ x <= IMax(categories.bands[b][1], categories.bands[b][2])}
       IN  IF hits = {} THEN <<0 - 1>>
           ELSE <<(CHOOSE b \in hits : \A c \in hits : b <= c) - 1>>

\* Data.consolidateData(props): one dataset per inner array, string values
\* replaced by their numbers, every point given its category index
consolidateData(props) ==
  LET stringMap == createStringMap(props, "x")
      point(d) == [x        |-> IF props.xStrings THEN stringMap[d.x] ELSE d.x,
                   y        |-> d.y,
                   category |-> determineCategoryIndex(d.x, props.categories)]
  IN  [i \in DOMAIN props.data |->
         [attrs |-> NoObject,
          data  |-> [j \in DOMAIN props.data[i] |-> point(props.data[i][j])]]]

\* the sum of the values of sign sgn (1: positive, -1: negative) at point
\* index j over all datasets
RECURSIVE SignedSum(_, _, _)
SignedSum(datasets, j, sgn) ==
  IF datasets = <<>> THEN 0
  ELSE LET d == Head(datasets).data
           v == IF j \in DOMAIN d /\ d[j].y * sgn > 0 THEN d[j].y ELSE 0
       IN  v + SignedSum(Tail(datasets), j, sgn)

\* Chart.getDomainFromGroupedData(props, axis): min and max over all points,
\* widened, for the y axis of a stacked chart, to the cumulative same-sign
\* sums at each point index
getDomainFromGroupedData(props, axis) ==
  LET datasets == consolidateData(props)
      all    == Flatten([i \in DOMAIN datasets |->
                  [j \in DOMAIN datasets[i].data |-> datasets[i].data[j][axis]]])
      idx    == UNION {DOMAIN datasets[i].data : i \in DOMAIN datasets}
      cumMax == CHOOSE m \in {SignedSum(datasets, j, 1) : j \in idx} :
                  \A j \in idx : SignedSum(datasets, j, 1) <= m
      cumMin == CHOOSE m \in {SignedSum(datasets, j, 0 - 1) : j \in idx} :
                  \A j \in idx : SignedSum(datasets, j, 0 - 1) >= m
  IN  IF axis = "y" /\ props.stacked /\ Len(datasets) > 1
        THEN <<Num(IMin(SeqMin(all), cumMin)), Num(IMax(SeqMax(all), cumMax))>>
        ELSE <<Num(SeqMin(all)), Num(SeqMax(all))>>

\* Chart.padDomain: both ends moved outwards by domainPadding pixels,
\* converted to domain units by the domain / range ratio
padDomain(props, domain, axis) ==
  LET range       == getRange(props, axis)
      rangeExtent == RSub(MaxOf(range), MinOf(range))
      extent      == RSub(MaxOf(domain), MinOf(domain))
      pad         == RDiv(RMul(extent, Num(props.domainPadding)), rangeExtent)
  IN  <<RSub(MinOf(domain), pad), RAdd(MaxOf(domain), pad)>>

\* Scale.getBaseScale(props, axis): a fresh linear scale, not yet configured
getBaseScale(props, axis) == [domain |-> <<>>, range |-> <<>>]

\* applying a d3 linear scale; a zero-width domain maps everything to the
\* start of the range
scaleCall(scale, v) ==
  LET d0 == scale.domain[1]
      d1 == scale.domain[2]
      r0 == scale.range[1]
      r1 == scale.range[2]
  IN  IF d0 = d1 THEN r0
      ELSE RAdd(r0, RMul(RDiv(RSub(v, d0), RSub(d1, d0)), RSub(r1, r0)))

-----------------------------------------------------------------------------
(* JavaScript array helpers used by the component.  Indices handed to and  *)
(* returned by them are zero-based, as in the source.                      *)

\* arr[i]: the element when present, undefined (<<>>) otherwise
At(arr, i) == IF i + 1 \in DOMAIN arr THEN <<arr[i + 1]>> ELSE <<>>

\* truthiness of an optional string: undefined and "" are falsy
Truthy(opt) == opt # <<>> /\ opt[1] # ""

\* a || b
OrElse(a, b) == IF Truthy(a) THEN a ELSE b

\* _.take(arr, n)
Take(arr, n) == SubSeq(arr, 1, IMin(n, Len(arr)))

\* _.uniq(arr): first occurrences, in order
RECURSIVE Uniq(_)
Uniq(arr) ==
  IF arr = <<>> THEN <<>>
  ELSE LET init == Uniq(SubSeq(arr, 1, Len(arr) - 1))
           last == arr[Len(arr)]
       IN  IF \E i \in DOMAIN init : init[i] = last THEN init ELSE Append(init, last)

\* inserting v into an ascending array, after the elements equal to it
RECURSIVE Insert(_, _)
Insert(sorted, v) ==
  IF sorted = <<>> THEN <<v>>
  ELSE IF v < Head(sorted) THEN <<v>> \o sorted
  ELSE <<Head(sorted)>> \o Insert(Tail(sorted), v)

\* _.sortBy(arr): ascending, stable
RECURSIVE SortBy(_)
SortBy(arr) ==
  IF arr = <<>> THEN <<>>
  ELSE Insert(SortBy(SubSeq(arr, 1, Len(arr) - 1)), arr[Len(arr)])

\* _.findIndex(arr, (n) => n === v): -1 when no element matches
FindIndex(arr, v) ==
  IF \E i \in DOMAIN arr : arr[i] = v
    THEN (CHOOSE i \in DOMAIN arr : arr[i] = v /\ \A k \in 1..(i - 1) : arr[k] # v) - 1
    ELSE 0 - 1

-----------------------------------------------------------------------------
(* The component.  An instance is a record of this.props, the values that  *)
(* getCalculatedValues caches on the instance (style, padding, stringMap,  *)
(* datasets, range, domain, scale) and `out`, what its last render pass    *)
(* returned.  Each method is an operator on the instance `self`.           *)

\* getStyles with the merge of the parent style turned round: the height
\* and width props overwrite what style.parent gives
getStylesDimensionsLast(props) ==
  LET style  == IF props.style.set
                  THEN [parent |-> props.style.parent, data |-> props.style.data,
                        labels |-> props.style.labels]
                  ELSE [parent |-> NoObject, data |-> defaultStyles.data,
                        labels |-> defaultStyles.labels]
  IN  [parent |-> Merge(style.parent, [height |-> props.height, width |-> props.width]),
       data   |-> Merge(Merge(NoObject, defaultStyles.data), style.data),
       labels |-> Merge(Merge(NoObject, defaultStyles.labels), style.labels)]

getStyles(props) ==
  LET style  == IF props.style.set
                  THEN [parent |-> props.style.parent, data |-> props.style.data,
                        labels |-> props.style.labels]
                  ELSE [parent |-> NoObject, data |-> defaultStyles.data,
                        labels |-> defaultStyles.labels]
  IN  [parent |-> Merge([height |-> props.height, width |-> props.width], style.parent),
       data   |-> Merge(Merge(NoObject, defaultStyles.data), style.data),
       labels |-> Merge(Merge(NoObject, defaultStyles.labels), style.labels)]

getDomainFromCategories(props, axis) ==
  IF axis # "x" \/ props.categories.kind = "none" \/ containsStrings(props.categories)
    THEN <<>>
    ELSE LET categories == IF props.categories.kind = "bands"
                             THEN Flatten(props.categories.bands)
                             ELSE props.categories.nums
         IN  <<Num(SeqMin(categories)), Num(SeqMax(categories))>>

\* getDomainUnpadded with the category domain tested before the shared
\* domain array
getDomainCategoriesFirst(props, axis) ==
  LET categoryDomain == getDomainFromCategories(props, axis)
  IN  IF props.domain.kind = "object" /\ props.domain[axis] # <<>>
        THEN <<Num(props.domain[axis][1]), Num(props.domain[axis][2])>>
      ELSE IF categoryDomain # <<>>
        THEN categoryDomain
      ELSE IF props.domain.kind = "array"
        THEN <<Num(props.domain.arr[1]), Num(props.domain.arr[2])>>
      ELSE getDomainFromGroupedData(props, axis)

\* the domain that getDomain hands to Chart.padDomain
getDomainUnpadded(props, axis) ==
  LET categoryDomain == getDomainFromCategories(props, axis)
  IN  IF props.domain.kind = "object" /\ props.domain[axis] # <<>>
        THEN <<Num(props.domain[axis][1]), Num(props.domain[axis][2])>>
      ELSE IF props.domain.kind = "array"
        THEN <<Num(props.domain.arr[1]), Num(props.domain.arr[2])>>
      ELSE IF categoryDomain # <<>>
        THEN categoryDomain
      ELSE getDomainFromGroupedData(props, axis)

getDomain(props, axis) == padDomain(props, getDomainUnpadded(props, axis), axis)

getScale(self, props, axis) ==
  LET scale == getBaseScale(props, axis)
  IN  [scale EXCEPT !.range = self.range[axis], !.domain = self.domain[axis]]

\* the last assignment of getCalculatedValues: getScale reads the range and
\* the domain that the instance holds by then
setScale(self, props) ==
  [self EXCEPT !.scale = [x |-> getScale(self, props, "x"), y |-> getScale(self, props, "y")]]

\* getCalculatedValues that keeps a domain the instance has already
\* calculated instead of overwriting it
getCalculatedValuesKeepingDomain(self, props) ==
  setScale(
    [self EXCEPT
       !.style     = getStyles(props),
       !.padding   = getPadding(props),
       !.stringMap = [x |-> createStringMap(props, "x"), y |-> createStringMap(props, "y")],
       !.datasets  = consolidateData(props),
       !.range     = [x |-> getRange(props, "x"), y |-> getRange(props, "y")],
       !.domain    = IF self.domain.x # <<>> THEN self.domain
                     ELSE [x |-> getDomain(props, "x"), y |-> getDomain(props, "y")]],
    props)

getCalculatedValues(self, props) ==
  setScale(
    [self EXCEPT
       !.style     = getStyles(props),
       !.padding   = getPadding(props),
       !.stringMap = [x |-> createStringMap(props, "x"), y |-> createStringMap(props, "y")],
       !.datasets  = consolidateData(props),
       !.range     = [x |-> getRange(props, "x"), y |-> getRange(props, "y")],
       !.domain    = [x |-> getDomain(props, "x"), y |-> getDomain(props, "y")]],
    props)

pixelsToValue(self, pixels, axis) ==
  LET domainExtent == RSub(MaxOf(self.domain[axis]), MinOf(self.domain[axis]))
      rangeExtent  == RSub(MaxOf(self.range[axis]), MinOf(self.range[axis]))
  IN  RMul(RDiv(domainExtent, rangeExtent), Num(pixels))

\* the centre index that adjustX subtracts from the dataset index
groupCenter(self) ==
  IF Len(self.datasets) % 2 = 0
    THEN Len(self.datasets) \div 2
    ELSE (Len(self.datasets) - 1) \div 2

\* the width of one bar slot in domain units that adjustX computes
totalWidth(self) ==
  RAdd(pixelsToValue(self, self.style.data.padding, "x"),
       pixelsToValue(self, self.style.data.width, "x"))

adjustX(self, data, index, options) ==
  LET x            == Num(data.x)
      stacked      == options.stacked
      centerOffset == Num(index - groupCenter(self))
      shift        == RMul(centerOffset, totalWidth(self))
  IN  IF data.category # <<>>
        THEN LET rangeBand  == self.props.categories.bands[data.category[1] + 1]
                 bandCenter == RDiv(Num(IMax(rangeBand[1], rangeBand[2])
                                        + IMin(rangeBand[1], rangeBand[2])), Num(2))
             IN  IF stacked THEN bandCenter ELSE RAdd(bandCenter, shift)
        ELSE IF stacked THEN x ELSE RAdd(x, shift)

\* sameSign without the sign test: every previous bar is added to the stack
sameSignIgnoringSign(y, barValue) == barValue # <<>>

\* the sameSign test of getYOffset's reducer; barValue is optional (a
\* shorter previous dataset has no bar at barIndex, and undefined compares
\* false with everything)
sameSign(y, barValue) ==
  /\ barValue # <<>>
  /\ \/ (y < 0 /\ barValue[1] < 0)
     \/ (y >= 0 /\ barValue[1] >= 0)

\* the _.reduce of getYOffset over the y arrays of the previous datasets
RECURSIVE reduceBars(_, _, _, _)
reduceBars(previousBars, y, barIndex, memo) ==
  IF previousBars = <<>> THEN memo
  ELSE LET barValue == At(Head(previousBars), barIndex)
       IN  reduceBars(Tail(previousBars), y, barIndex,
                      IF sameSign(y, barValue) THEN memo + barValue[1] ELSE memo)

getYOffset(self, data, index, barIndex) ==
  LET minY == MinOf(self.domain.y)
  IN  IF index = 0 THEN RMax(minY, Num(0))
      ELSE LET y                == data.y
               previousDataSets == Take(self.datasets, index)
               previousBars     == [i \in DOMAIN previousDataSets |->
                                      [j \in DOMAIN previousDataSets[i].data |->
                                         previousDataSets[i].data[j].y]]
           IN  Num(reduceBars(previousBars, y, barIndex, 0))

\* getLabelIndex testing the category for truthiness: category 0 falls
\* through to the other branches
getLabelIndexFalsyCategory(self, data) ==
  IF data.category # <<>> /\ data.category[1] # 0 THEN data.category[1]
  ELSE IF self.stringMap.x # NoObject THEN data.x - 1
  ELSE LET allX    == [i \in DOMAIN self.datasets |->
                         [j \in DOMAIN self.datasets[i].data |-> self.datasets[i].data[j].x]]
           uniqueX == Uniq(Flatten(allX))
       IN  FindIndex(SortBy(uniqueX), data.x)

getLabelIndex(self, data) ==
  IF data.category # <<>> THEN data.category[1]
  ELSE IF self.stringMap.x # NoObject THEN data.x - 1
  ELSE LET allX    == [i \in DOMAIN self.datasets |->
                         [j \in DOMAIN self.datasets[i].data |-> self.datasets[i].data[j].x]]
           uniqueX == Uniq(Flatten(allX))
       IN  FindIndex(SortBy(uniqueX), data.x)

\* x, y0 and y1 in domain units, before getBarPosition scales them
barValues(self, data, index, barIndex) ==
  LET stacked == self.props.stacked
      yOffset == getYOffset(self, data, index, barIndex)
  IN  [x  |-> adjustX(self, data, index, [stacked |-> stacked]),
       y0 |-> IF stacked THEN yOffset ELSE RMax(MinOf(self.domain.y), Num(0)),
       y1 |-> IF stacked THEN RAdd(yOffset, Num(data.y)) ELSE Num(data.y)]

getBarPosition(self, data, index, barIndex) ==
  LET v == barValues(self, data, index, barIndex)
  IN  [independent |-> scaleCall(self.scale.x, v.x),
       dependent0  |-> scaleCall(self.scale.y, v.y0),
       dependent1  |-> scaleCall(self.scale.y, v.y1)]

\* plotGroupLabel with the centre taken as floor((count - 1) / 2)
plotGroupLabelLowCentre(self, index) ==
  LET isCenter == ((Len(self.datasets) - 1) \div 2) = index
      isLast   == Len(self.datasets) = index + 1
      stacked  == self.props.stacked
  IN  (stacked /\ isLast) \/ (~stacked /\ isCenter)

\* whether renderBars attaches the group label to the bars of dataset index
plotGroupLabel(self, index) ==
  LET isCenter == (Len(self.datasets) \div 2) = index
      isLast   == Len(self.datasets) = index + 1
      stacked  == self.props.stacked
  IN  (stacked /\ isLast) \/ (~stacked /\ isCenter)

\* barLabel without the fallback to the first label
barLabelNoFallback(self, data, index) ==
  LET labelIndex     == getLabelIndex(self, data)
      labelText      == IF self.props.labels.set
                          THEN At(self.props.labels.v, labelIndex)
                          ELSE <<"">>
      labelComponent == IF self.props.labelComponents.set
                          THEN OrElse(At(self.props.labelComponents.v, index),
                                      At(self.props.labelComponents.v, 0))
                          ELSE <<>>
  IN  [labelText |-> labelText, labelComponent |-> labelComponent,
       style |-> self.style.labels]

\* the BarLabel props that renderBars computes for a label-carrying bar
barLabel(self, data, index) ==
  LET labelIndex     == getLabelIndex(self, data)
      labelText      == IF self.props.labels.set
                          THEN OrElse(At(self.props.labels.v, labelIndex),
                                      At(self.props.labels.v, 0))
                          ELSE <<"">>
      labelComponent == IF self.props.labelComponents.set
                          THEN OrElse(At(self.props.labelComponents.v, index),
                                      At(self.props.labelComponents.v, 0))
                          ELSE <<>>
  IN  [labelText |-> labelText, labelComponent |-> labelComponent,
       style |-> self.style.labels]

\* one element per bar: the Bar props and, for a label-carrying bar, the
\* BarLabel props (label is optional)
renderBars(self, dataset, index) ==
  [b \in DOMAIN dataset.data |->
     LET data      == dataset.data[b]
         barIndex  == b - 1
         position  == getBarPosition(self, data, index, barIndex)
         style     == Merge(Merge(NoObject, self.style.data), dataset.attrs)
         plotLabel == plotGroupLabel(self, index)
                        /\ (self.props.labels.set \/ self.props.labelComponents.set)
     IN  [series |-> index, bar |-> barIndex, style |-> style,
          position |-> position, data |-> data,
          label |-> IF plotLabel THEN <<barLabel(self, data, index)>> ELSE <<>>]]

renderData(self) ==
  [i \in DOMAIN self.datasets |-> renderBars(self, self.datasets[i], i - 1)]

NoOutput == [kind |-> "none", style |-> NoObject, bars |-> <<>>, animateData |-> <<>>]

\* the props that render hands to VictoryAnimation to tween (_.pick)
animateData(props) ==
  [data |-> props.data, xStrings |-> props.xStrings, categories |-> props.categories,
   domain |-> props.domain, height |-> props.height, padding |-> props.padding,
   style |-> props.style, width |-> props.width]

\* callbackProps without animate={null}: the animate object is passed on
callbackPropsKeepingAnimate(self, tweened) ==
  [self.props EXCEPT !.data = tweened.data, !.xStrings = tweened.xStrings,
                     !.categories = tweened.categories, !.domain = tweened.domain,
                     !.height = tweened.height, !.padding = tweened.padding,
                     !.style = tweened.style, !.width = tweened.width]

\* the props of the VictoryBar that the callback given to VictoryAnimation
\* creates: {...this.props, ...props, animate: null}
callbackProps(self, tweened) ==
  [self.props EXCEPT !.data = tweened.data, !.xStrings = tweened.xStrings,
                     !.categories = tweened.categories, !.domain = tweened.domain,
                     !.height = tweened.height, !.padding = tweened.padding,
                     !.style = tweened.style, !.width = tweened.width,
                     !.animate = FALSE]

\* the markup render returns once the values are calculated: the parent
\* style and the bars of renderData
renderChart(self) ==
  [self EXCEPT !.out = [NoOutput EXCEPT !.kind = "chart", !.style = self.style.parent,
                                        !.bars = renderData(self)]]

render(self) ==
  IF self.props.animate
    THEN [self EXCEPT !.out = [NoOutput EXCEPT !.kind = "animation",
                                               !.animateData = <<animateData(self.props)>>]]
    ELSE renderChart(getCalculatedValues(self, self.props))

\* a newly constructed instance: nothing calculated, nothing rendered
NewInstance(props) ==
  [props     |-> props,
   style     |-> [parent |-> NoObject, data |-> NoObject, labels |-> NoObject],
   padding   |-> [top |-> 0, bottom |-> 0, left |-> 0, right |-> 0],
   stringMap |-> [x |-> NoObject, y |-> NoObject],
   datasets  |-> <<>>,
   range     |-> [x |-> <<>>, y |-> <<>>],
   domain    |-> [x |-> <<>>, y |-> <<>>],
   scale     |-> [x |-> getBaseScale(props, "x"), y |-> getBaseScale(props, "y")],
   out       |-> NoOutput]

\* the values getCalculatedValues caches on the instance
Cached(self) ==
  <<self.style, self.padding, self.stringMap, self.datasets, self.range, self.domain,
    self.scale>>

-----------------------------------------------------------------------------
(* The props the model draws from.                                         *)

MaxDatasets == 3    \* at most this many datasets in props.data
MaxBars     == 3    \* at most this many data points in props.data
MaxDepth    == 3    \* at most this many nested VictoryBar instances

defaultProps ==
  [animate |-> FALSE, data |-> defaultData, xStrings |-> FALSE,
   categories |-> NoCategories, domain |-> NoDomain, domainPadding |-> 1,
   height |-> 300, width |-> 450, padding |-> 50, labels |-> NoArray,
   labelComponents |-> NoArray, stacked |-> FALSE, style |-> NoStyle]

\* every array of at most n non-empty arrays over `values` that holds at
\* most b values in all
RECURSIVE ArraysUpTo(_, _, _)
ArraysUpTo(values, n, b) ==
  IF n = 0 \/ b = 0 THEN {<<>>}
  ELSE {<<>>} \cup
       UNION {UNION {{<<d>> \o rest : rest \in ArraysUpTo(values, n - 1, b - k)} :
                     d \in [1..k -> values]} : k \in 1..b}

Shapes(values) == ArraysUpTo(values, MaxDatasets, MaxBars) \ {<<>>}

YValues == {0 - 2, 0, 2, 3}
XValues == {1, 5, 7}

\* datasets whose points take x from their position and y from YValues
StackData ==
  {[i \in DOMAIN ys |-> [j \in DOMAIN ys[i] |-> [x |-> j, y |-> ys[i][j]]]] :
     ys \in Shapes(YValues)}

\* datasets whose points take x from XValues, all of the same height
GroupData ==
  {[i \in DOMAIN xs |-> [j \in DOMAIN xs[i] |-> [x |-> xs[i][j], y |-> 2]]] :
     xs \in Shapes(XValues)}

ObjectDomain(x, y) == [kind |-> "object", arr |-> <<>>, x |-> x, y |-> y]
ArrayDomain(arr)   == [kind |-> "array", arr |-> arr, x |-> <<>>, y |-> <<>>]
Bands(bands)       == [kind |-> "bands", nums |-> <<>>, bands |-> bands]
Numbers(nums)      == [kind |-> "numbers", nums |-> nums, bands |-> <<>>]
Strings            == [kind |-> "strings", nums |-> <<>>, bands |-> <<>>]
Array(v)           == [set |-> TRUE, v |-> v]
Style(parent, data, labels) ==
  [set |-> TRUE, parent |-> parent, data |-> data, labels |-> labels]

\* stacked and grouped charts over every y domain source
StackProps ==
  {[defaultProps EXCEPT !.data = d, !.stacked = st, !.domain = dp[1], !.domainPadding = dp[2]] :
     d \in StackData, st \in BOOLEAN,
     dp \in {<<NoDomain, 1>>, <<ObjectDomain(<<>>, <<2, 10>>), 0>>,
             <<ObjectDomain(<<>>, <<0 - 5, 5>>), 1>>}}

\* x placement and labels: numeric x, range-band categories and string x
GroupProps ==
  {[defaultProps EXCEPT !.data = d, !.stacked = st, !.categories = cx[1],
                        !.xStrings = cx[2], !.labels = l, !.labelComponents = lc] :
     d \in GroupData, st \in BOOLEAN,
     cx \in {<<NoCategories, FALSE>>, <<Bands(<<<<0, 5>>, <<5, 10>>>>), FALSE>>,
             <<NoCategories, TRUE>>},
     l \in {NoArray, Array(<<>>), Array(<<"a", "", "c">>)},
     lc \in {NoArray, Array(<<"L0", "L1">>)}}

\* chart dimensions against style overrides
StyleProps ==
  {[defaultProps EXCEPT !.height = h, !.width = w, !.style = s] :
     h \in {300, 200}, w \in {450, 200},
     s \in {NoStyle} \cup
           {Style(sp, sd, sl) :
              sp \in {NoObject, [border |-> 1], [height |-> 99], [height |-> 99, width |-> 77]},
              sd \in {NoObject, [width |-> 4], [fill |-> "red", padding |-> 2], [rx |-> 3]},
              sl \in {NoObject, [fontSize |-> 10], [angle |-> 45]}}}

\* every way of giving a domain against every kind of categories
DomainProps ==
  {[defaultProps EXCEPT !.domain = dom, !.categories = cx[1], !.xStrings = cx[2],
                        !.stacked = st] :
     st \in BOOLEAN,
     dom \in {NoDomain, ArrayDomain(<<0 - 1, 8>>), ObjectDomain(<<0, 6>>, <<>>),
              ObjectDomain(<<>>, <<0, 9>>), ObjectDomain(<<0, 6>>, <<0, 9>>)},
     cx \in {<<NoCategories, FALSE>>, <<Strings, TRUE>>, <<Strings, FALSE>>,
             <<Numbers(<<2, 9, 4>>), FALSE>>, <<Bands(<<<<0, 5>>, <<5, 10>>>>), FALSE>>}}

InputProps == StackProps \cup GroupProps \cup StyleProps \cup DomainProps

\* the configurations a mounted chart is re-rendered with
Configs ==
  LET base ==
        { defaultProps,
          [defaultProps EXCEPT
             !.data = << <<[x |-> 1, y |-> 3], [x |-> 2, y |-> 1]>>,
                         <<[x |-> 1, y |-> 0 - 2], [x |-> 2, y |-> 2]>> >>,
             !.stacked = TRUE, !.labels = Array(<<"a", "b">>)],
          [defaultProps EXCEPT
             !.data = << <<[x |-> 1, y |-> 3], [x |-> 7, y |-> 1]>>, <<[x |-> 5, y |-> 2]>> >>,
             !.categories = Bands(<<<<0, 5>>, <<5, 10>>>>),
             !.domain = ObjectDomain(<<>>, <<2, 10>>), !.height = 200,
             !.style = Style([height |-> 99], [width |-> 4], NoObject)],
          [defaultProps EXCEPT
             !.data = << <<[x |-> 2, y |-> 1]>>, <<[x |-> 1, y |-> 2], [x |-> 3, y |-> 4]>> >>,
             !.xStrings = TRUE, !.width = 200, !.padding = 20, !.domainPadding = 0,
             !.labelComponents = Array(<<"L0">>)],
          [defaultProps EXCEPT
             !.data = << <<[x |-> 3, y |-> 0 - 1]>>, <<[x |-> 3, y |-> 2]>>,
                         <<[x |-> 4, y |-> 0 - 3]>> >>,
             !.categories = Numbers(<<2, 9, 4>>), !.domain = ArrayDomain(<<0 - 4, 6>>),
             !.stacked = TRUE, !.labels = Array(<<"", "b">>),
             !.style = Style([width |-> 77], NoObject, [fontSize |-> 10])] }
  IN  {[c EXCEPT !.animate = a] : c \in base, a \in BOOLEAN}

-----------------------------------------------------------------------------
(* The state machine.                                                      *)

\* the chart has been constructed with the default props, with or without
\* an animate object, and not yet rendered
Init == \E animate \in BOOLEAN :
          tree = <<NewInstance([defaultProps EXCEPT !.animate = animate])>>

\* the tree once instance `inst` has rendered at level k: the instances
\* above it are untouched; the VictoryAnimation it returns keeps the ones
\* below it mounted, a chart unmounts them
Rendered(k, inst) ==
  SubSeq(tree, 1, k - 1) \o <<inst>> \o
    (IF inst.out.kind = "animation" THEN SubSeq(tree, k + 1, Len(tree)) ELSE <<>>)

\* the instance the callback's element is rendered into: the VictoryBar
\* already mounted at level k, or a new one
Reconciled(k, props) ==
  IF k <= Len(tree) THEN [tree[k] EXCEPT !.props = props] ELSE NewInstance(props)

\* React mounts the root and runs its first render pass
Mount ==
  /\ tree[1].out.kind = "none"
  /\ tree' = Rendered(1, render(tree[1]))

\* the parent gives the root new props and React runs a render pass
Update(props) ==
  /\ tree[1].out.kind # "none"
  /\ tree' = Rendered(1, render([tree[1] EXCEPT !.props = props]))

\* VictoryAnimation, rendered by the instance at level k, calls its child
\* callback with tweened props; React mounts or updates the VictoryBar the
\* callback returns and runs its render pass
Tween(k, tweened) ==
  /\ k \in DOMAIN tree
  /\ k < MaxDepth
  /\ tree[k].out.kind = "animation"
  /\ tree' = Rendered(k + 1, render(Reconciled(k + 1, callbackProps(tree[k], tweened))))

Next ==
  \/ Mount
  \/ \E props \in Configs : Update(props)
  \/ \E k \in 1..MaxDepth, c \in Configs : Tween(k, animateData(c))

Spec == Init /\ [][Next]_vars

\* a single render pass of a newly constructed chart, over all of InputProps
InitPass == \E props \in InputProps : tree = <<NewInstance(props)>>

NextPass == Mount

PassSpec == InitPass /\ [][NextPass]_vars

-----------------------------------------------------------------------------
(* Properties.  `Root` is the root instance; under PassSpec it is the only *)
(* instance.  Dataset and bar indices are zero-based in the component and  *)
(* one-based in the sequences that hold them.                              *)

Root    == tree[1]
Charted == Root.out.kind = "chart"

\* both negative or both non-negative
SignsMatch(a, b) == (a < 0 /\ b < 0) \/ (a >= 0 /\ b >= 0)

\* the datasets before dataset i that hold, at point index j, a bar of the
\* sign of dataset i's bar there
SameSignBefore(ds, i, j) ==
  {k \in 1..(i - 1) : j \in DOMAIN ds[k].data
                        /\ SignsMatch(ds[k].data[j].y, ds[i].data[j].y)}

\* x, y0 and y1, in domain units, of bar j of dataset i of the root
ValuesAt(i, j) == barValues(Root, Root.datasets[i].data[j], i - 1, j - 1)

RECURSIVE SumOver(_, _, _)
SumOver(ds, ks, j) ==
  IF ks = {} THEN 0
  ELSE LET k == CHOOSE k \in ks : TRUE
       IN  ds[k].data[j].y + SumOver(ds, ks \ {k}, j)

(* C1: in a stacked chart every bar of a dataset after the first starts    *)
(* where the previous same-sign bar at its point index ends, and ends at   *)
(* its start plus its own y, whatever the y domain is.                     *)
C1_StackedBarsAbut ==
  (Charted /\ Root.props.stacked) =>
    \A i \in DOMAIN Root.datasets : \A j \in DOMAIN Root.datasets[i].data :
      i > 1 =>
        /\ ValuesAt(i, j).y1 = RAdd(ValuesAt(i, j).y0, Num(Root.datasets[i].data[j].y))
        /\ \A k \in SameSignBefore(Root.datasets, i, j) :
             (\A m \in SameSignBefore(Root.datasets, i, j) : m <= k)
               => ValuesAt(i, j).y0 = ValuesAt(k, j).y1

(* C2: in a stacked chart the start of a bar of a dataset after the first  *)
(* is the sum of the same-sign y values of the previous datasets at its    *)
(* point index, and is what the scale maps to dependent0; a bar of the     *)
(* first dataset starts at max(min of the y domain, 0).                    *)
C2_SignAwareOffset ==
  Charted =>
    \A i \in DOMAIN Root.datasets : \A j \in DOMAIN Root.datasets[i].data :
      LET expected == IF i = 1 THEN RMax(MinOf(Root.domain.y), Num(0))
                      ELSE Num(SumOver(Root.datasets,
                                       SameSignBefore(Root.datasets, i, j), j))
      IN  /\ getYOffset(Root, Root.datasets[i].data[j], i - 1, j - 1) = expected
          /\ Root.props.stacked =>
                Root.out.bars[i][j].position.dependent0 = scaleCall(Root.scale.y, expected)

\* a stacked chart is rendered in which a bar of -2 follows a bar of 3 and
\* starts at 0, on a y scale that tells 0 from 3
C2_Witness ==
  /\ Charted /\ Root.props.stacked
  /\ Len(Root.datasets) >= 2
  /\ Root.datasets[1].data[1].y = 3
  /\ Root.datasets[2].data[1].y = 0 - 2
  /\ ValuesAt(2, 1).y0 = Num(0)
  /\ Root.out.bars[2][1].position.dependent0 # scaleCall(Root.scale.y, Num(3))

\* the x, before adjustX moves it, of a point: its x, or the centre of its
\* range band
NominalX(data) ==
  IF data.category = <<>> THEN Num(data.x)
  ELSE LET band == Root.props.categories.bands[data.category[1] + 1]
       IN  RDiv(Num(band[1] + band[2]), Num(2))

\* how far adjustX moves bar j of dataset i from its nominal x
OffsetAt(i, j) == RSub(ValuesAt(i, j).x, NominalX(Root.datasets[i].data[j]))

(* C3: in a grouped chart of N datasets the bars are offset by whole       *)
(* multiples of totalWidth placed symmetrically around the nominal x:      *)
(* dataset i is offset by (i - (N - 1) / 2) * totalWidth, which for N = 2  *)
(* is -0.5 * totalWidth and +0.5 * totalWidth.                             *)
C3_GroupCentred ==
  (Charted /\ ~Root.props.stacked) =>
    \A i \in DOMAIN Root.datasets : \A j \in DOMAIN Root.datasets[i].data :
      OffsetAt(i, j) =
        RMul(RSub(Num(i - 1), RDiv(Num(Len(Root.datasets) - 1), Num(2))),
             totalWidth(Root))

\* the user's style object for one part of the style bundle, if any
UserStyle(part) == IF Root.props.style.set THEN Root.props.style[part] ELSE NoObject

\* the data and labels styles hold every default key and every user key,
\* with the user's value wherever the user gives one
DefaultsOverridden ==
  \A part \in {"data", "labels"} :
    /\ DOMAIN Root.style[part] = DOMAIN defaultStyles[part] \cup DOMAIN UserStyle(part)
    /\ \A key \in DOMAIN Root.style[part] :
         Root.style[part][key] =
           IF key \in DOMAIN UserStyle(part) THEN UserStyle(part)[key]
           ELSE defaultStyles[part][key]

(* C4 as stated: the resolved parent style carries the height and width    *)
(* props, also when style.parent gives a height or a width of its own; the *)
(* data and labels styles hold every default key, overridden key by key by *)
(* the user's values.                                                      *)
C4_DimensionPropsWin ==
  Charted =>
    /\ Root.style.parent.height = Root.props.height
    /\ Root.style.parent.width = Root.props.width
    /\ DefaultsOverridden

(* C4, amended: the resolved parent style is the height and width props    *)
(* overridden key by key by style.parent, so it carries props.height and   *)
(* props.width only where style.parent gives no height or width of its     *)
(* own; the data and labels styles are as stated.                          *)
C4_StyleOverridesWin ==
  Charted =>
    /\ DOMAIN Root.style.parent = {"height", "width"} \cup DOMAIN UserStyle("parent")
    /\ \A key \in DOMAIN Root.style.parent :
         Root.style.parent[key] =
           IF key \in DOMAIN UserStyle("parent") THEN UserStyle("parent")[key]
           ELSE Root.props[key]
    /\ Root.out.style = Root.style.parent
    /\ DefaultsOverridden

\* a chart is rendered whose style.parent gives a height but no width: the
\* resolved height is the style's, the resolved width the prop
C4_Witness ==
  /\ Charted
  /\ Root.props.style.set
  /\ DOMAIN Root.props.style.parent = {"height"}
  /\ Root.style.parent.height = Root.props.style.parent.height
  /\ Root.style.parent.height # Root.props.height
  /\ Root.style.parent.width = Root.props.width

\* the least and the greatest element of a non-empty set of integers
Least(S)    == CHOOSE m \in S : \A n \in S : m <= n
Greatest(S) == CHOOSE m \in S : \A n \in S : n <= m

\* every number that occurs in the categories: the band boundaries of range
\* bands, the values of numeric categories
CategoryNumbers(categories) ==
  {categories.bands[b][e] : b \in DOMAIN categories.bands, e \in {1, 2}}
    \cup {categories.nums[n] : n \in DOMAIN categories.nums}

\* the unpadded domain of an axis by first match: the per-axis domain, the
\* shared domain array, for x the extent of the categories of one of
\* `kinds`, the scan of the datasets
DomainByPriority(props, axis, kinds) ==
  IF props.domain.kind = "object" /\ props.domain[axis] # <<>>
    THEN <<Num(props.domain[axis][1]), Num(props.domain[axis][2])>>
  ELSE IF props.domain.kind = "array"
    THEN <<Num(props.domain.arr[1]), Num(props.domain.arr[2])>>
  ELSE IF axis = "x" /\ props.categories.kind \in kinds
    THEN <<Num(Least(CategoryNumbers(props.categories))),
           Num(Greatest(CategoryNumbers(props.categories)))>>
  ELSE getDomainFromGroupedData(props, axis)

(* C5 as stated: each axis's domain is the padded first match of the       *)
(* per-axis domain, the shared domain array, for x the extent of range-    *)
(* band categories, the scan of the datasets; categories that are not      *)
(* range bands fall through to the scan.                                   *)
C5_BandsOnly ==
  Charted =>
    \A axis \in {"x", "y"} :
      Root.domain[axis] =
        padDomain(Root.props, DomainByPriority(Root.props, axis, {"bands"}), axis)

(* C5, amended: as above, but the third match is, for x, categories of any *)
(* kind without strings: range bands and plain numbers alike give the      *)
(* extent of their flattened values; only string categories, and any       *)
(* categories on y, fall through to the scan.                              *)
C5_DomainPriority ==
  Charted =>
    \A axis \in {"x", "y"} :
      Root.domain[axis] =
        padDomain(Root.props, DomainByPriority(Root.props, axis, {"bands", "numbers"}), axis)

\* a chart with range bands and a shared domain array takes the array for
\* x; one with range bands and only a y domain takes the bands for x
C5_Witness ==
  /\ Charted
  /\ Root.props.categories.kind = "bands"
  /\ \/ /\ Root.props.domain.kind = "array"
        /\ MinOf(Root.domain.x) # Num(0)
     \/ /\ Root.props.domain.kind = "object" /\ Root.props.domain.x = <<>>
        /\ Root.props.domain.y # <<>>
        /\ RLe(MinOf(Root.domain.x), Num(0))

\* whether bar j of dataset i was rendered with a label
HasLabel(i, j) == Root.out.bars[i][j].label # <<>>

LabelsConfigured == Root.props.labels.set \/ Root.props.labelComponents.set

\* the dataset whose bars carry the group labels
LabelDataset ==
  IF Root.props.stacked THEN Len(Root.datasets) ELSE (Len(Root.datasets) \div 2) + 1

\* the point indices that hold at least one bar
Groups == UNION {DOMAIN Root.datasets[i].data : i \in DOMAIN Root.datasets}

LabelledIn(j) ==
  {i \in DOMAIN Root.datasets : j \in DOMAIN Root.datasets[i].data /\ HasLabel(i, j)}

(* C6 as stated: with labels or labelComponents configured every group has *)
(* exactly one label-carrying bar, that of the centre dataset (grouped) or *)
(* of the last dataset (stacked); without them no bar carries a label.     *)
C6_OneLabelPerGroup ==
  Charted =>
    \A j \in Groups :
      IF LabelsConfigured THEN LabelledIn(j) = {LabelDataset} ELSE LabelledIn(j) = {}

(* C6, amended: a bar carries a label iff labels or labelComponents are    *)
(* configured and it belongs to the centre dataset (grouped) or the last   *)
(* dataset (stacked); so a group has one label-carrying bar when that      *)
(* dataset has a point at the group's index, and none when it has not.     *)
C6_LabelsOnOneDataset ==
  Charted =>
    /\ \A i \in DOMAIN Root.datasets : \A j \in DOMAIN Root.datasets[i].data :
         HasLabel(i, j) <=> (LabelsConfigured /\ i = LabelDataset)
    /\ \A j \in Groups :
         Cardinality(LabelledIn(j)) =
           IF LabelsConfigured /\ j \in DOMAIN Root.datasets[LabelDataset].data
             THEN 1 ELSE 0

\* a grouped chart of three datasets whose first group is labelled on the
\* middle bar only
C6_Witness ==
  /\ Charted /\ ~Root.props.stacked /\ LabelsConfigured
  /\ Len(Root.datasets) = 3
  /\ LabelledIn(1) = {2}
  /\ Cardinality({i \in DOMAIN Root.datasets : 1 \in DOMAIN Root.datasets[i].data}) = 3

\* the x values of all points of all datasets
AllX == UNION {{Root.datasets[i].data[j].x : j \in DOMAIN Root.datasets[i].data} :
               i \in DOMAIN Root.datasets}

(* C7: the label index of a point is its category when it has one (also    *)
(* category 0), else x - 1 when the x values are string-encoded, else the  *)
(* zero-based rank of its x among the distinct x values of all datasets.   *)
C7_LabelIndex ==
  Charted =>
    \A i \in DOMAIN Root.datasets : \A j \in DOMAIN Root.datasets[i].data :
      LET data == Root.datasets[i].data[j]
      IN  getLabelIndex(Root, data) =
            IF data.category # <<>> THEN data.category[1]
            ELSE IF Root.props.xStrings THEN data.x - 1
            ELSE Cardinality({x \in AllX : x < data.x})

\* with range bands [[0,5],[5,10]] a point of category 1 and one of
\* category 0 are rendered, with label indices 1 and 0
C7_Witness ==
  /\ Charted
  /\ Root.props.categories.kind = "bands"
  /\ \E i \in DOMAIN Root.datasets : \E j \in DOMAIN Root.datasets[i].data :
       /\ Root.datasets[i].data[j].category = <<1>>
       /\ getLabelIndex(Root, Root.datasets[i].data[j]) = 1
  /\ \E i \in DOMAIN Root.datasets : \E j \in DOMAIN Root.datasets[i].data :
       /\ Root.datasets[i].data[j].category = <<0>>
       /\ getLabelIndex(Root, Root.datasets[i].data[j]) = 0

\* the text of the label at a label index: the configured text there, the
\* first configured label when there is none, "" without configured labels
TextFor(labelIndex) ==
  LET labels == Root.props.labels.v
  IN  IF ~Root.props.labels.set THEN <<"">>
      ELSE IF labelIndex + 1 \in DOMAIN labels /\ labels[labelIndex + 1] # ""
        THEN <<labels[labelIndex + 1]>>
      ELSE IF labels # <<>> THEN <<labels[1]>>
      ELSE <<>>

(* C9: a label-carrying bar shows labels[labelIndex] when labels are       *)
(* configured with text at that index, labels[0] when the text there is    *)
(* missing, and the empty string when only labelComponents are configured. *)
C9_LabelText ==
  Charted =>
    \A i \in DOMAIN Root.datasets : \A j \in DOMAIN Root.datasets[i].data :
      HasLabel(i, j) =>
        Root.out.bars[i][j].label[1].labelText =
          TextFor(getLabelIndex(Root, Root.datasets[i].data[j]))

\* labels are rendered with the text of their own index, with the first
\* label where the text is missing, and empty under labelComponents alone
C9_Witness ==
  /\ Charted
  /\ \E i \in DOMAIN Root.datasets : \E j \in DOMAIN Root.datasets[i].data :
       /\ HasLabel(i, j)
       /\ \/ /\ Root.props.labels.v = <<"a", "", "c">>
             /\ getLabelIndex(Root, Root.datasets[i].data[j]) = 1
             /\ Root.out.bars[i][j].label[1].labelText = <<"a">>
          \/ /\ Root.props.labels.v = <<"a", "", "c">>
             /\ getLabelIndex(Root, Root.datasets[i].data[j]) = 2
             /\ Root.out.bars[i][j].label[1].labelText = <<"c">>
          \/ /\ ~Root.props.labels.set
             /\ Root.out.bars[i][j].label[1].labelText = <<"">>

\* what a newly constructed instance makes of the props in one render pass
FreshPass(props) == render(NewInstance(props))

(* C8: whatever passes an instance ran before, after a non-animated pass   *)
(* its cached values and the markup it returned (the geometry of every     *)
(* bar) are those of a pass of a new instance with the same props: the     *)
(* pass depends on the configuration alone.                                *)
C8_PassDependsOnPropsOnly ==
  \A k \in DOMAIN tree :
    tree[k].out.kind = "chart" =>
      /\ Cached(tree[k]) = Cached(FreshPass(tree[k].props))
      /\ tree[k].out = FreshPass(tree[k].props).out

\* the root, constructed with the default props, has since been given
\* other data and another stacked flag and has rendered them
C8_Witness ==
  /\ Charted
  /\ Root.props.data # defaultData
  /\ Root.props.stacked
  /\ Root.out.bars # <<>>

\* the instance at level k before the step, a new one if none was mounted
Before(k) == IF k \in DOMAIN tree THEN tree[k] ELSE NewInstance(tree'[k].props)

(* C10: a pass with an animate object returns the VictoryAnimation element *)
(* and calculates nothing (the cached values stay as they were); the       *)
(* VictoryBar its callback creates has animate null and renders a chart,   *)
(* so no VictoryBar is nested more than one level below the root.          *)
C10_AnimationDelegatesOnce ==
  /\ [](/\ Len(tree) <= 2
        /\ \A k \in DOMAIN tree :
             /\ tree[k].out.kind = "animation" => tree[k].props.animate
             /\ tree[k].out.kind = "chart" => ~tree[k].props.animate
             /\ k > 1 => /\ ~tree[k].props.animate
                         /\ tree[k].out.kind = "chart"
                         /\ tree[k - 1].out.kind = "animation")
  /\ [][\A k \in DOMAIN tree' :
          tree'[k].out.kind = "animation" => Cached(tree'[k]) = Cached(Before(k))]_vars

\* the root, mounted with an animate object, has calculated nothing, and
\* the VictoryBar of its callback has rendered a chart
C10_Witness ==
  /\ Len(tree) = 2
  /\ Root.out.kind = "animation"
  /\ Root.datasets = <<>>
  /\ tree[2].out.kind = "chart"
  /\ tree[2].out.bars # <<>>

=============================================================================
